---- MODULE Spec2Model ----
(***************************************************************************)
(* Model of src/app.js: the evidence camera page.                          *)
(*                                                                         *)
(* The page is a single-threaded event loop.  Every action below is one    *)
(* run-to-completion step of that loop: an event handler up to its first   *)
(* await, or the continuation of an async function from one await to the   *)
(* next (or to its end).  Promises that the browser or a library settles   *)
(* (getUserMedia, enumerateDevices, toBlob, arrayBuffer, digest,           *)
(* OTS.stamp, generateAsync, geolocation) settle in any order.             *)
(***************************************************************************)
EXTENDS Integers, Sequences, FiniteSets

VARIABLES
    initPc,          \* position of init() (app.js:43-73)
    calls,           \* getUserMedia calls: 0 is init's probe, k >= 1 the k-th startStream
    currentStream,   \* app.js:11, the call whose stream it holds, <<>> for null
    video,           \* the <video> element: srcObject, videoWidth, videoHeight
    options,         \* the <option> values of cameraSelect, in order
    alerts,          \* the alert() dialogs shown so far
    geoPc,           \* the getCurrentPosition request of app.js:64
    gpsPosition,     \* app.js:12, the one shared position object
    now,             \* the last reading of the wall clock by new Date()
    canvas,          \* the <canvas> element: width, height
    cap,             \* the captures started so far, in click order
    downloadSection, \* children of #download-section: the captures whose zipBtn is there
    metaOutput,      \* text of #metaOutput
    messageDivs,     \* confirmation messages put into document.body so far (the
                     \* timer that takes each one out again is left out)
    zips,            \* JSZip objects whose generateAsync is pending
    downloads        \* the archives handed to the user by link.click()

vars == <<initPc, calls, currentStream, video, options, alerts, geoPc, gpsPosition,
          now, canvas, cap, downloadSection, metaOutput, messageDivs, zips, downloads>>

streamVars == <<initPc, calls, currentStream, video, options, alerts>>
captureVars == <<canvas, cap, downloadSection, metaOutput, messageDivs, zips, downloads>>

-----------------------------------------------------------------------------
(* Bounds of the model *)

MaxSelects == 2      \* camera-change events by the user
MaxCaptures == 2     \* clicks on the capture button
MaxClock == 1        \* seconds the wall clock can advance
DigestLen == 2       \* bytes of a digest that the model keeps

-----------------------------------------------------------------------------
(* Strings are sequences of one-character strings. *)

Null == <<>>
Some(x) == <<x>>

NA == <<"N", "/", "A">>

DigitChar(d) ==
    CASE d = 0 -> "0" [] d = 1 -> "1" [] d = 2 -> "2" [] d = 3 -> "3" [] d = 4 -> "4"
      [] d = 5 -> "5" [] d = 6 -> "6" [] d = 7 -> "7" [] d = 8 -> "8" [] d = 9 -> "9"
      [] d = 10 -> "a" [] d = 11 -> "b" [] d = 12 -> "c" [] d = 13 -> "d"
      [] d = 14 -> "e" [] d = 15 -> "f"

RECURSIVE NumberToString(_, _)
NumberToString(n, radix) ==
    IF n < radix THEN <<DigitChar(n)>>
    ELSE Append(NumberToString(n \div radix, radix), DigitChar(n % radix))

RECURSIVE PadStart(_, _, _)
PadStart(s, len, ch) == IF Len(s) >= len THEN s ELSE PadStart(<<ch>> \o s, len, ch)


-----------------------------------------------------------------------------
(* Cameras, streams and the video element *)

Devices == {1, 2}

\* What enumerateDevices can report after the filter on kind = videoinput.
EnumerateResults == {<<>>, <<1, 2>>, <<2, 1>>}

\* Native frame size of a camera, as the video element reports it.
NativeWidth(deviceId) == 5 - 2 * deviceId
NativeHeight(deviceId) == 29

ProbeCall == 1

NoVideo == [srcObject |-> Null, videoWidth |-> 0, videoHeight |-> 0]

LiveStreams == {k \in DOMAIN calls : calls[k].live}

\* currentStream.getTracks().forEach(track => track.stop())
StopTracks(cs, stream) ==
    IF stream = Null THEN cs ELSE [cs EXCEPT ![stream[1]].live = FALSE]

\* startStream up to its await: release the stream held in currentStream,
\* then ask for the new device.
StartStream(deviceId) ==
    /\ calls' = Append(StopTracks(calls, currentStream),
                       [state |-> "pending", device |-> deviceId, live |-> FALSE])
    /\ UNCHANGED <<currentStream, video, alerts>>

\* startStream after its await, getUserMedia resolved with a new stream.
GetUserMediaResolve(k) ==
    /\ k # ProbeCall
    /\ calls[k].state = "pending"
    /\ calls' = [calls EXCEPT ![k].state = "resolved", ![k].live = TRUE]
    /\ currentStream' = Some(k)
    /\ video' = [srcObject |-> Some(k), videoWidth |-> 0, videoHeight |-> 0]
    /\ UNCHANGED <<initPc, options, alerts, geoPc, gpsPosition, now>>
    /\ UNCHANGED captureVars

\* startStream after its await, getUserMedia rejected.
GetUserMediaReject(k) ==
    /\ k # ProbeCall
    /\ calls[k].state = "pending"
    /\ calls' = [calls EXCEPT ![k].state = "rejected"]
    /\ alerts' = alerts \cup {"Unable to access the camera"}
    /\ UNCHANGED <<initPc, currentStream, video, options, geoPc, gpsPosition, now>>
    /\ UNCHANGED captureVars

\* The video element has loaded the first frame of the stream it shows.
VideoLoadedMetadata ==
    /\ video.srcObject # Null
    /\ video.videoWidth = 0
    /\ calls[video.srcObject[1]].live
    /\ video' = [video EXCEPT
                    !.videoWidth = NativeWidth(calls[video.srcObject[1]].device),
                    !.videoHeight = NativeHeight(calls[video.srcObject[1]].device)]
    /\ UNCHANGED <<initPc, calls, currentStream, options, alerts, geoPc, gpsPosition, now>>
    /\ UNCHANGED captureVars

\* init after its first await: the permission probe was granted.
InitProbeResolve ==
    /\ initPc = "probe"
    /\ calls' = [calls EXCEPT ![ProbeCall].state = "resolved", ![ProbeCall].live = TRUE]
    /\ initPc' = "enumerate"
    /\ UNCHANGED <<currentStream, video, options, alerts, geoPc, gpsPosition, now>>
    /\ UNCHANGED captureVars

\* init after its first await: the permission probe was refused.
InitProbeReject ==
    /\ initPc = "probe"
    /\ calls' = [calls EXCEPT ![ProbeCall].state = "rejected"]
    /\ alerts' = alerts \cup {"Camera permission is required."}
    /\ initPc' = "done"
    /\ UNCHANGED <<currentStream, video, options, geoPc, gpsPosition, now>>
    /\ UNCHANGED captureVars

\* init from the list of cameras to its end.
InitEnumerateResolve(cameras) ==
    /\ initPc = "enumerate"
    /\ options' = cameras
    /\ IF Len(cameras) > 0
          THEN StartStream(cameras[1])
          ELSE UNCHANGED <<calls, currentStream, video, alerts>>
    /\ geoPc' = "pending"
    /\ initPc' = "done"
    /\ UNCHANGED <<gpsPosition, now>>
    /\ UNCHANGED captureVars

\* The user picks a camera in cameraSelect.
CameraChange(deviceId) ==
    /\ Len(calls) < MaxSelects + 2
    /\ \E i \in DOMAIN options : options[i] = deviceId
    /\ StartStream(deviceId)
    /\ UNCHANGED <<initPc, options, geoPc, gpsPosition, now>>
    /\ UNCHANGED captureVars

-----------------------------------------------------------------------------
(* Geolocation *)

\* Position fixes in microdegrees.
Fixes == {[latitude |-> 45123456, longitude |-> -9000001],
          [latitude |-> 1500000, longitude |-> 12000000]}

\* Number.prototype.toFixed(6) of a coordinate given in microdegrees.
ToFixed6(u) ==
    LET a == IF u < 0 THEN -u ELSE u
    IN  (IF u < 0 THEN <<"-">> ELSE <<>>)
        \o NumberToString(a \div 1000000, 10) \o <<".">>
        \o PadStart(NumberToString(a % 1000000, 10), 6, "0")

\* Faulty variant of GeoSuccess: the callback ends after its first assignment.
GeoSuccessLatitudeOnly(pos) ==
    /\ geoPc = "pending"
    /\ geoPc' = "success"
    /\ gpsPosition' = [gpsPosition EXCEPT !.lat = ToFixed6(pos.latitude)]
    /\ UNCHANGED <<now>>
    /\ UNCHANGED streamVars
    /\ UNCHANGED captureVars

\* The success callback of getCurrentPosition: it writes into the shared object.
GeoSuccess(pos) ==
    /\ geoPc = "pending"
    /\ geoPc' = "success"
    /\ gpsPosition' = [lat |-> ToFixed6(pos.latitude), lon |-> ToFixed6(pos.longitude)]
    /\ UNCHANGED <<now>>
    /\ UNCHANGED streamVars
    /\ UNCHANGED captureVars

\* Faulty variant of GeoError: the error callback empties the position.
GeoErrorResetsPosition ==
    /\ geoPc = "pending"
    /\ geoPc' = "error"
    /\ gpsPosition' = [lat |-> <<>>, lon |-> <<>>]
    /\ UNCHANGED <<now>>
    /\ UNCHANGED streamVars
    /\ UNCHANGED captureVars

\* The error callback of getCurrentPosition: a warning on the console.
GeoError ==
    /\ geoPc = "pending"
    /\ geoPc' = "error"
    /\ UNCHANGED <<gpsPosition, now>>
    /\ UNCHANGED streamVars
    /\ UNCHANGED captureVars

-----------------------------------------------------------------------------
(* The clock *)

\* What new Date() can return: the clock never runs backwards, and `now` is its
\* last reading.
ClockReadings == now..MaxClock

TwoDigits(n) == PadStart(NumberToString(n, 10), 2, "0")

\* Date.prototype.toISOString of the instant `t` seconds after the epoch of the model.
ToISOString(t) ==
    <<"2", "0", "2", "4", "-", "0", "1", "-", "0", "1", "T">>
    \o TwoDigits((t \div 3600) % 24) \o <<":">> \o TwoDigits((t \div 60) % 60) \o <<":">>
    \o TwoDigits(t % 60) \o <<".", "0", "0", "0", "Z">>

-----------------------------------------------------------------------------
(* The capture pipeline *)

\* parseFloat(qualitySelect.value), in percent.
Qualities == {0, 50, 100}

\* Faulty variant of ToCanvasSize: the size is rounded up.
ToCanvasSizeRoundedUp(hundredths) == (hundredths + 99) \div 100

\* Assigning a non-negative number to canvas.width keeps its integer part.
\* `hundredths` is the number times one hundred.
ToCanvasSize(hundredths) == hundredths \div 100

\* Math.round of the non-negative fraction num / den.
Round(num, den) == (2 * num + den) \div (2 * den)

\* The geometry of the watermark, from the handler's width and height (given
\* in hundredths).  fontSize is in pixels, the other lengths are in
\* ten-thousandths of a pixel.
Watermark(width, height) ==
    LET fontSize == Round(height * 35, 100000)
        marginX == width * 2
        lineHeight == fontSize * 14000
        padding == fontSize * 4000
        boxHeight == 3 * lineHeight + 2 * padding
    IN  [fontSize |-> fontSize, marginX |-> marginX, lineHeight |-> lineHeight,
         padding |-> padding, boxHeight |-> boxHeight, boxX |-> marginX,
         boxY |-> height * 100 - boxHeight - marginX]

\* The three watermark lines, without their fixed labels.
WatermarkLines(timestamp, position) == <<timestamp, position.lat, position.lon>>

\* What canvas.toBlob hands to its callback: null for a canvas without pixels,
\* else the PNG of the bitmap as it is when toBlob is called.
ToBlob(bitmap) == IF bitmap.width = 0 \/ bitmap.height = 0 THEN Null ELSE Some(bitmap)

Alphabet == <<"0", "1", "2", "3", "4", "5", "6", "7", "8", "9",
              "-", ":", ".", "T", "Z", "N", "/", "A">>

CharCode(ch) == CHOOSE i \in DOMAIN Alphabet : Alphabet[i] = ch

RECURSIVE CharCodes(_)
CharCodes(s) == IF s = <<>> THEN <<>> ELSE <<CharCode(Head(s))>> \o CharCodes(Tail(s))

\* blob.arrayBuffer(): the bytes of the encoded image.
ArrayBuffer(blob) ==
    <<blob.width, blob.height, blob.frame>>
    \o <<blob.watermark.fontSize, blob.watermark.boxX % 256, blob.watermark.boxY % 256>>
    \o CharCodes(blob.lines[1]) \o CharCodes(blob.lines[2]) \o CharCodes(blob.lines[3])

RECURSIVE Mix(_, _, _)
Mix(bytes, h, m) ==
    IF bytes = <<>> THEN h ELSE Mix(Tail(bytes), (h * m + Head(bytes)) % 256, m)

\* crypto.subtle.digest('SHA-256', buffer): a deterministic digest of DigestLen bytes.
Sha256(buffer) == [i \in 1..DigestLen |-> Mix(buffer, i, 29 + 2 * i)]

\* Faulty variant of ComputeHash: the digest leaves the watermark out.
ComputeHashOfFrame(blob) == Sha256(<<blob.width, blob.height, blob.frame>>)

\* computeHash
ComputeHash(blob) == Sha256(ArrayBuffer(blob))

RECURSIVE Join(_)
Join(parts) == IF parts = <<>> THEN <<>> ELSE Head(parts) \o Join(Tail(parts))

\* Array.from(hashBytes).map(b => b.toString(16).padStart(2, '0')).join('')
ToHex(hashBytes) ==
    Join([i \in DOMAIN hashBytes |-> PadStart(NumberToString(hashBytes[i], 16), 2, "0")])

\* OTS.DetachedTimestampFile.fromHash(op, hashBytes)
FromHash(op, hashBytes) == [op |-> op, msg |-> hashBytes, attestations |-> {}]

\* detached.serializeToBytes()
SerializeToBytes(detached) ==
    [magic |-> "OpenTimestamps", op |-> detached.op, msg |-> detached.msg,
     attestations |-> detached.attestations]

\* Faulty variant of GenerateMetadata: the timestamp is the one of page load.
GenerateMetadataAtPageLoad(hashHex, date) ==
    [timestamp_utc |-> ToISOString(0),
     gps |-> "gpsPosition",
     hash_sha256 |-> hashHex,
     user_agent |-> "navigator.userAgent",
     platform |-> "navigator.platform",
     timezone_offset_min |-> 0,
     image_resolution |-> [width |-> canvas.width, height |-> canvas.height]]

\* generateMetadata: gps holds the shared position object itself, not a copy.
GenerateMetadata(hashHex, date) ==
    [timestamp_utc |-> ToISOString(date),
     gps |-> "gpsPosition",
     hash_sha256 |-> hashHex,
     user_agent |-> "navigator.userAgent",
     platform |-> "navigator.platform",
     timezone_offset_min |-> 0,
     image_resolution |-> [width |-> canvas.width, height |-> canvas.height]]

\* The object a reference held in a record points to.
Deref(ref) == gpsPosition

\* JSON.stringify(metadata, null, 2): the values of the record as they are now.
JsonStringify(metadata) == [metadata EXCEPT !.gps = Deref(metadata.gps)]

\* Faulty variant of ReplaceColons: replace without the g flag.
ReplaceFirstColon(s) ==
    [i \in DOMAIN s |-> IF s[i] = ":" /\ \A j \in 1..(i - 1) : s[j] # ":" THEN "-" ELSE s[i]]

\* timestampUTC.replace(/:/g, '-')
ReplaceColons(s) == [i \in DOMAIN s |-> IF s[i] = ":" THEN "-" ELSE s[i]]

\* link.download
DownloadName(metadata) == ReplaceColons(metadata.timestamp_utc) \o <<".", "z", "i", "p">>

\* zip.file(name, data)
ZipFile(files, name, data) ==
    [n \in DOMAIN files \cup {name} |-> IF n = name THEN data ELSE files[n]]

\* The variables of one click: width and height of the handler (in hundredths),
\* then those of the toBlob callback.
NewCapture(width, height, blob) ==
    [pc |-> "toBlob", width |-> width, height |-> height, blob |-> blob, hashBytes |-> Null, hashHex |-> Null,
     detached |-> Null, stamp |-> "none", otsBlob |-> Null,
     metadata |-> Null, jsonBlob |-> Null]

\* The click handler of captureBtn, up to and including the call of canvas.toBlob.
CaptureClick(quality, date) ==
    /\ Len(cap) < MaxCaptures
    /\ LET width == video.videoWidth * quality
           height == video.videoHeight * quality
           size == [width |-> ToCanvasSize(width), height |-> ToCanvasSize(height)]
           frame == IF video.srcObject = Null THEN 0
                    ELSE calls[video.srcObject[1]].device
           bitmap == [width |-> size.width, height |-> size.height, frame |-> frame,
                      watermark |-> Watermark(width, height),
                      lines |-> WatermarkLines(ToISOString(date), gpsPosition)]
       IN  /\ canvas' = size
           /\ cap' = Append(cap, NewCapture(width, height, ToBlob(bitmap)))
    /\ now' = date
    /\ UNCHANGED <<downloadSection, metaOutput, messageDivs, zips, downloads>>
    /\ UNCHANGED <<geoPc, gpsPosition>>
    /\ UNCHANGED streamVars

\* The toBlob callback up to its first suspension: it empties the download
\* section and calls computeHash, which throws on a null blob.
ToBlobCallback(c) ==
    /\ cap[c].pc = "toBlob"
    /\ downloadSection' = <<>>
    /\ cap' = [cap EXCEPT ![c].pc = IF cap[c].blob = Null THEN "failed" ELSE "arrayBuffer"]
    /\ UNCHANGED <<canvas, metaOutput, messageDivs, zips, downloads>>
    /\ UNCHANGED <<geoPc, gpsPosition, now>>
    /\ UNCHANGED streamVars

\* computeHash after blob.arrayBuffer(): it calls crypto.subtle.digest.
ArrayBufferResolve(c) ==
    /\ cap[c].pc = "arrayBuffer"
    /\ cap' = [cap EXCEPT ![c].pc = "digest"]
    /\ UNCHANGED <<canvas, downloadSection, metaOutput, messageDivs, zips, downloads>>
    /\ UNCHANGED <<geoPc, gpsPosition, now>>
    /\ UNCHANGED streamVars

\* The rest of the callback from the line after OTS.stamp, with the stamp in
\* state `stamp` and the clock reading `date`.
Package(c, stamp, date) ==
    /\ LET detached == [cap[c].detached[1] EXCEPT !.attestations = {"pending"}]
           metadata == GenerateMetadata(cap[c].hashHex, date)
       IN  /\ cap' = [cap EXCEPT ![c].pc = "done",
                                 ![c].stamp = stamp,
                                 ![c].detached = Some(detached),
                                 ![c].otsBlob = Some(SerializeToBytes(detached)),
                                 ![c].metadata = Some(metadata),
                                 ![c].jsonBlob = Some(JsonStringify(metadata))]
           /\ metaOutput' = Some(JsonStringify(metadata))
    /\ downloadSection' = Append(downloadSection, c)
    /\ messageDivs' = messageDivs + 1
    /\ now' = date
    /\ UNCHANGED <<canvas, zips, downloads>>
    /\ UNCHANGED <<geoPc, gpsPosition>>
    /\ UNCHANGED streamVars

\* Faulty variant of DigestResolve: OTS.stamp is called but not awaited.
DigestResolveWithoutAwait(c) ==
    /\ cap[c].pc = "digest"
    /\ LET hashBytes == ComputeHash(cap[c].blob[1])
           detached == FromHash("sha256", hashBytes)
           metadata == GenerateMetadata(ToHex(hashBytes), now)
       IN  /\ cap' = [cap EXCEPT ![c].pc = "done",
                                 ![c].hashBytes = hashBytes,
                                 ![c].hashHex = ToHex(hashBytes),
                                 ![c].detached = Some(detached),
                                 ![c].stamp = "pending",
                                 ![c].otsBlob = Some(SerializeToBytes(detached)),
                                 ![c].metadata = Some(metadata),
                                 ![c].jsonBlob = Some(JsonStringify(metadata))]
           /\ metaOutput' = Some(JsonStringify(metadata))
    /\ downloadSection' = Append(downloadSection, c)
    /\ messageDivs' = messageDivs + 1
    /\ UNCHANGED <<canvas, zips, downloads>>
    /\ UNCHANGED <<geoPc, gpsPosition, now>>
    /\ UNCHANGED streamVars

\* The digest is there: the callback encodes it, builds the detached
\* timestamp and calls OTS.stamp.
DigestResolve(c) ==
    /\ cap[c].pc = "digest"
    /\ LET hashBytes == ComputeHash(cap[c].blob[1])
       IN  cap' = [cap EXCEPT ![c].pc = "stamp",
                              ![c].hashBytes = hashBytes,
                              ![c].hashHex = ToHex(hashBytes),
                              ![c].detached = Some(FromHash("sha256", hashBytes)),
                              ![c].stamp = "pending"]
    /\ UNCHANGED <<canvas, downloadSection, metaOutput, messageDivs, zips, downloads>>
    /\ UNCHANGED <<geoPc, gpsPosition, now>>
    /\ UNCHANGED streamVars

\* crypto.subtle.digest fails: the callback ends with that error.
DigestReject(c) ==
    /\ cap[c].pc = "digest"
    /\ cap' = [cap EXCEPT ![c].pc = "failed"]
    /\ UNCHANGED <<canvas, downloadSection, metaOutput, messageDivs, zips, downloads>>
    /\ UNCHANGED <<geoPc, gpsPosition, now>>
    /\ UNCHANGED streamVars

\* OTS.stamp resolved: the rest of the callback, to its end.
StampResolve(c, date) ==
    /\ cap[c].pc = "stamp"
    /\ Package(c, "resolved", date)

\* Faulty variant of StampReject: the rejection is swallowed and the callback goes on.
StampRejectIgnored(c) ==
    /\ cap[c].pc = "stamp"
    /\ Package(c, "rejected", now)

\* OTS.stamp rejected: the callback ends with that error.
StampReject(c) ==
    /\ cap[c].pc = "stamp"
    /\ cap' = [cap EXCEPT ![c].pc = "failed", ![c].stamp = "rejected"]
    /\ UNCHANGED <<canvas, downloadSection, metaOutput, messageDivs, zips, downloads>>
    /\ UNCHANGED <<geoPc, gpsPosition, now>>
    /\ UNCHANGED streamVars

\* Faulty variant of ZipEntries: the metadata is serialized again at each click.
ZipEntriesSerializedAtClick(c) ==
    ZipFile(ZipFile(ZipFile(<<>>, "evidence.png", cap[c].blob[1]),
                    "metadata.json", JsonStringify(cap[c].metadata[1])),
            "evidence.ots", cap[c].otsBlob[1])

\* Faulty variant of ZipEntries: the proof is left out.
ZipEntriesWithoutProof(c) ==
    ZipFile(ZipFile(<<>>, "evidence.png", cap[c].blob[1]),
            "metadata.json", cap[c].jsonBlob[1])

\* The three entries zipBtn.onclick puts into a new JSZip.
ZipEntries(c) ==
    ZipFile(ZipFile(ZipFile(<<>>, "evidence.png", cap[c].blob[1]),
                    "metadata.json", cap[c].jsonBlob[1]),
            "evidence.ots", cap[c].otsBlob[1])

\* zipBtn.onclick up to its await of zip.generateAsync.
ZipBtnClick(c) ==
    /\ \E i \in DOMAIN downloadSection : downloadSection[i] = c
    /\ zips' = zips \cup {[capture |-> c, files |-> ZipEntries(c)]}
    /\ UNCHANGED <<canvas, cap, downloadSection, metaOutput, messageDivs, downloads>>
    /\ UNCHANGED <<geoPc, gpsPosition, now>>
    /\ UNCHANGED streamVars

\* zipBtn.onclick after its await: the archive is named and downloaded.
ZipGenerateResolve(zip) ==
    /\ zip \in zips
    /\ zips' = zips \ {zip}
    /\ downloads' = downloads \cup
           {[capture |-> zip.capture,
             download |-> DownloadName(cap[zip.capture].metadata[1]),
             files |-> zip.files]}
    /\ UNCHANGED <<canvas, cap, downloadSection, metaOutput, messageDivs>>
    /\ UNCHANGED <<geoPc, gpsPosition, now>>
    /\ UNCHANGED streamVars

-----------------------------------------------------------------------------
(* The page after the script has run: init() is waiting for its probe. *)

Init ==
    /\ initPc = "probe"
    /\ calls = <<[state |-> "pending", device |-> 0, live |-> FALSE]>>
    /\ currentStream = Null
    /\ video = NoVideo
    /\ options = <<>>
    /\ alerts = {}
    /\ geoPc = "idle"
    /\ gpsPosition = [lat |-> NA, lon |-> NA]
    /\ now = 0
    /\ canvas = [width |-> 0, height |-> 0]
    /\ cap = <<>>
    /\ downloadSection = <<>>
    /\ metaOutput = Null
    /\ messageDivs = 0
    /\ zips = {}
    /\ downloads = {}

\* The steps of the page while the user leaves the camera selector alone.
Next ==
    \/ InitProbeResolve
    \/ InitProbeReject
    \/ \E cameras \in EnumerateResults : InitEnumerateResolve(cameras)
    \/ \E k \in DOMAIN calls : GetUserMediaResolve(k)
    \/ \E k \in DOMAIN calls : GetUserMediaReject(k)
    \/ VideoLoadedMetadata
    \/ \E pos \in Fixes : GeoSuccess(pos)
    \/ GeoError
    \/ \E quality \in Qualities, date \in ClockReadings : CaptureClick(quality, date)
    \/ \E c \in DOMAIN cap : ToBlobCallback(c)
    \/ \E c \in DOMAIN cap : ArrayBufferResolve(c)
    \/ \E c \in DOMAIN cap : DigestResolve(c)
    \/ \E c \in DOMAIN cap : DigestReject(c)
    \/ \E c \in DOMAIN cap, date \in ClockReadings : StampResolve(c, date)
    \/ \E c \in DOMAIN cap : StampReject(c)
    \/ \E c \in DOMAIN cap : ZipBtnClick(c)
    \/ \E zip \in zips : ZipGenerateResolve(zip)

Spec == Init /\ [][Next]_vars

\* The steps of the page while the user leaves the capture button alone.
NextStream ==
    \/ InitProbeResolve
    \/ InitProbeReject
    \/ \E cameras \in EnumerateResults : InitEnumerateResolve(cameras)
    \/ \E deviceId \in Devices : CameraChange(deviceId)
    \/ \E k \in DOMAIN calls : GetUserMediaResolve(k)
    \/ \E k \in DOMAIN calls : GetUserMediaReject(k)
    \/ VideoLoadedMetadata

SpecStream == Init /\ [][NextStream]_vars

-----------------------------------------------------------------------------
(* Properties *)

EntryNames == {"evidence.png", "metadata.json", "evidence.ots"}

\* The captures whose download control is in the download section.
Buttons == {downloadSection[i] : i \in DOMAIN downloadSection}

\* The captures a bundle has been, is being or can be made of.
Bundled == Buttons \cup {z.capture : z \in zips} \cup {a.capture : a \in downloads}

Exists(c) == cap[c].blob # Null /\ cap[c].jsonBlob # Null /\ cap[c].otsBlob # Null

HexValue(ch) == CHOOSE d \in 0..15 : DigitChar(d) = ch

\* The bytes a string of hexadecimal digit pairs stands for.
FromHex(s) == [i \in 1..(Len(s) \div 2) |-> 16 * HexValue(s[2 * i - 1]) + HexValue(s[2 * i])]

NAPosition == [lat |-> NA, lon |-> NA]

\* C1: every archive, emitted or in the making, has exactly the entries
\* evidence.png, metadata.json and evidence.ots, and a download control is
\* there only for a capture whose image, metadata and serialized proof exist.
C1_AllOrNothing ==
    /\ \A a \in downloads : DOMAIN a.files = EntryNames
    /\ \A z \in zips : DOMAIN z.files = EntryNames
    /\ \A c \in Buttons : Exists(c)

\* A bundle has been downloaded while another capture has failed.
C1_Witness ==
    /\ downloads # {}
    /\ \E c \in DOMAIN cap : cap[c].pc = "failed"

\* C2: a capture whose OTS.stamp rejected has no serialized proof, no metadata,
\* no download control and no archive, and every confirmation message belongs
\* to a capture whose stamp resolved.
C2_FailedStampNoBundle ==
    /\ \A c \in DOMAIN cap :
          cap[c].stamp = "rejected" =>
              /\ cap[c].pc = "failed"
              /\ cap[c].otsBlob = Null
              /\ cap[c].metadata = Null
              /\ cap[c].jsonBlob = Null
              /\ c \notin Bundled
    /\ messageDivs = Cardinality({c \in DOMAIN cap : cap[c].stamp = "resolved"})

\* The stamp of a capture has been rejected.
C2_Witness == \E c \in DOMAIN cap : cap[c].stamp = "rejected"

\* C3: at most one acquired camera stream has tracks that are not stopped.
C3_AtMostOneLiveStream == Cardinality(LiveStreams) <= 1

\* C4: in every bundle, hash_sha256 of metadata.json is the hexadecimal form of
\* the digest of the bytes of evidence.png of that bundle and the commitment in
\* evidence.ots is that digest; the digest of a capture is the one of its own
\* image and never changes once computed.
C4_BundleBinding(files) ==
    LET digest == Sha256(ArrayBuffer(files["evidence.png"]))
        hex == files["metadata.json"].hash_sha256
    IN  /\ Len(hex) = 2 * DigestLen
        /\ FromHex(hex) = digest
        /\ files["evidence.ots"].op = "sha256"
        /\ files["evidence.ots"].msg = digest

C4_DigestBinding ==
    /\ \A a \in downloads : C4_BundleBinding(a.files)
    /\ \A z \in zips : C4_BundleBinding(z.files)
    /\ \A c \in Buttons : C4_BundleBinding(ZipEntries(c))
    /\ \A c \in DOMAIN cap :
          cap[c].hashBytes # Null =>
              /\ cap[c].hashBytes = Sha256(ArrayBuffer(cap[c].blob[1]))
              /\ cap[c].detached[1].msg = cap[c].hashBytes

\* The bundle of the second capture has been downloaded while the first
\* capture, of another image, is still waiting for its stamp.
C4_Witness ==
    /\ Len(cap) = 2
    /\ cap[1].pc = "stamp"
    /\ cap[1].blob # cap[2].blob
    /\ \E a \in downloads : a.capture = 2

\* C5: once the metadata of a capture is constructed, no step changes the
\* value of any of its fields, gps.lat and gps.lon included.
C5_MetadataImmutable ==
    [][\A c \in DOMAIN cap :
          cap[c].metadata # Null =>
              /\ cap'[c].metadata # Null
              /\ JsonStringify(cap[c].metadata[1])' = JsonStringify(cap[c].metadata[1])]_vars

\* C6: as long as the geolocation success callback has not fired, every capture
\* whose stamp resolved has succeeded: its bundle exists, its download control
\* has been added, and its metadata has gps = {lat: "N/A", lon: "N/A"}.
C6_NoPositionStillSucceeds ==
    geoPc # "success" =>
        \A c \in DOMAIN cap :
            cap[c].stamp = "resolved" =>
                /\ cap[c].pc = "done"
                /\ Exists(c)
                /\ cap[c].jsonBlob[1].gps = NAPosition
                /\ JsonStringify(cap[c].metadata[1]).gps = NAPosition
                /\ metaOutput # Null

\* A capture has succeeded after the geolocation error callback has fired.
C6_Witness ==
    /\ geoPc = "error"
    /\ \E c \in Buttons : cap[c].pc = "done" /\ cap[c].jsonBlob[1].gps = NAPosition

\* C8: within a capture the digest is of the encoded, watermarked image, the
\* commitment is made of the digest, the stamp is asked for the commitment,
\* the proof is serialized only once the stamp has resolved, the metadata is
\* built only once the digest is there, and a bundle has all three parts.
C8_StepOrder ==
    \A c \in DOMAIN cap :
        /\ cap[c].pc \in {"arrayBuffer", "digest"} => cap[c].blob # Null /\ cap[c].hashBytes = Null
        /\ cap[c].hashBytes # Null => cap[c].blob # Null /\ Len(cap[c].blob[1].lines) = 3
        /\ cap[c].hashHex # Null => cap[c].hashBytes # Null
        /\ cap[c].detached # Null => cap[c].hashBytes # Null
        /\ cap[c].stamp # "none" => cap[c].detached # Null
        /\ cap[c].pc = "stamp" <=> cap[c].stamp = "pending"
        /\ cap[c].otsBlob # Null => cap[c].stamp = "resolved"
        /\ cap[c].metadata # Null => cap[c].hashBytes # Null /\ cap[c].otsBlob # Null
        /\ cap[c].jsonBlob # Null => cap[c].metadata # Null
        /\ c \in Bundled => Exists(c)

\* A capture has gone through all its steps and offers its bundle.
C8_Witness == \E c \in Buttons : cap[c].pc = "done" /\ cap[c].stamp = "resolved"

C10_ArchiveName ==
    /\ \A a \in downloads :
          LET ts == a.files["metadata.json"].timestamp_utc
              name == a.download
          IN  /\ Len(name) = Len(ts) + 4
              /\ \A i \in 1..Len(ts) : name[i] = (IF ts[i] = ":" THEN "-" ELSE ts[i])
              /\ SubSeq(name, Len(ts) + 1, Len(ts) + 4) = <<".", "z", "i", "p">>
              /\ \A i \in 1..Len(name) : name[i] # ":"
              /\ ts = cap[a.capture].metadata[1].timestamp_utc
    /\ \A a, b \in downloads : a.capture = b.capture => a.download = b.download

\* Two captures made at different times have both been downloaded.
C10_Witness ==
    \E a, b \in downloads : a.capture # b.capture /\ a.download # b.download

\* C11: every archive of a capture, downloaded or in the making, holds as
\* evidence.png and metadata.json the image and the metadata text produced when
\* the capture was made, so two archives of one capture agree on both entries.
C11_SameCaptureSameEntries ==
    LET archives == zips \cup {[capture |-> a.capture, files |-> a.files] : a \in downloads}
    IN  /\ \A a \in archives :
              /\ a.files["evidence.png"] = cap[a.capture].blob[1]
              /\ a.files["metadata.json"] = cap[a.capture].jsonBlob[1]
        /\ \A a, b \in archives :
              a.capture = b.capture =>
                  /\ a.files["evidence.png"] = b.files["evidence.png"]
                  /\ a.files["metadata.json"] = b.files["metadata.json"]
        /\ \A c \in DOMAIN cap :
              cap[c].jsonBlob # Null =>
                  /\ cap[c].jsonBlob[1].timestamp_utc = cap[c].metadata[1].timestamp_utc
                  /\ cap[c].jsonBlob[1].hash_sha256 = cap[c].hashHex

\* The first capture has been downloaded once and is being packaged again,
\* after a position fix has arrived and another capture has been started.
C11_Witness ==
    /\ Len(cap) = 2
    /\ geoPc = "success"
    /\ \E a \in downloads :
          /\ a.capture = 1
          /\ a.files["metadata.json"].gps = NAPosition
          /\ \E z \in zips : z.capture = 1

\* C12: in every bundle, image_resolution of metadata.json is the size of the
\* image stored as evidence.png.
C12_ResolutionOfOwnImage ==
    \A c \in DOMAIN cap :
        cap[c].jsonBlob # Null =>
            cap[c].jsonBlob[1].image_resolution =
                [width |-> cap[c].blob[1].width, height |-> cap[c].blob[1].height]

\* C13: in every image produced, the font size of the watermark is
\* round(0.035 x the image height) and its left margin is 0.02 x the image
\* width, both taken from the integer size of the image.
C13_GeometryFromImageSize ==
    \A c \in DOMAIN cap :
        cap[c].blob # Null =>
            /\ cap[c].blob[1].watermark.fontSize = Round(cap[c].blob[1].height * 35, 1000)
            /\ cap[c].blob[1].watermark.marginX = cap[c].blob[1].width * 200

\* C14: the download section holds at most one download control, and it is the
\* one of the most recently started capture that has succeeded.
C14_OneControlOfLatest ==
    /\ Len(downloadSection) <= 1
    /\ \A b \in Buttons : \A c \in DOMAIN cap : cap[c].pc = "done" => c <= b

\* C15: once a capture has failed and no capture is under way, the metadata on
\* display is the metadata of a capture whose download control is offered.
C15_FailureKeepsResult ==
    (/\ \E c \in DOMAIN cap : cap[c].pc = "failed"
     /\ \A c \in DOMAIN cap : cap[c].pc \in {"done", "failed"})
        => (metaOutput # Null => \E b \in Buttons : cap[b].jsonBlob = metaOutput)

\* C16: in every bundle, the latitude and longitude of the watermark of
\* evidence.png are gps.lat and gps.lon of metadata.json.
C16_WatermarkAgreesWithMetadata ==
    \A c \in DOMAIN cap :
        cap[c].jsonBlob # Null =>
            /\ cap[c].blob[1].lines[2] = cap[c].jsonBlob[1].gps.lat
            /\ cap[c].blob[1].lines[3] = cap[c].jsonBlob[1].gps.lon

\* Order of two strings of the alphabet, character by character.
RECURSIVE LexLeq(_, _)
LexLeq(a, b) ==
    IF a = <<>> THEN TRUE
    ELSE IF b = <<>> THEN FALSE
    ELSE IF Head(a) = Head(b) THEN LexLeq(Tail(a), Tail(b))
    ELSE CharCode(Head(a)) < CharCode(Head(b))

C18_LatestSelectionShown ==
    (/\ Len(calls) > 1
     /\ \A k \in DOMAIN calls : calls[k].state # "pending")
        => /\ currentStream # Null
           /\ video.srcObject = currentStream
           /\ calls[currentStream[1]].live
           /\ calls[currentStream[1]].device = calls[Len(calls)].device

\* The position as the success callback writes it for a fix.
PositionOf(fix) == [lat |-> ToFixed6(fix.latitude), lon |-> ToFixed6(fix.longitude)]

\* Both parts are "N/A", or both are the coordinates of one fix.
Consistent(position) == position = NAPosition \/ \E fix \in Fixes : position = PositionOf(fix)

\* C19: the shared position, the position in the watermark of every capture
\* and the position in the metadata text of every capture are each either
\* "N/A" twice or the two coordinates of one fix, and the position is "N/A"
\* as long as no fix has arrived, the error callback having fired or not.
C19_PositionAtomic ==
    /\ Consistent(gpsPosition)
    /\ geoPc # "success" => gpsPosition = NAPosition
    /\ \A c \in DOMAIN cap :
          /\ cap[c].blob # Null =>
                Consistent([lat |-> cap[c].blob[1].lines[2], lon |-> cap[c].blob[1].lines[3]])
          /\ cap[c].jsonBlob # Null => Consistent(cap[c].jsonBlob[1].gps)

\* A fix has arrived, one capture has its watermark from before the fix and
\* another capture has the fix in its watermark and in its metadata.
C19_Witness ==
    /\ geoPc = "success"
    /\ \E c \in DOMAIN cap : cap[c].blob # Null /\ cap[c].blob[1].lines[2] = NA
    /\ \E c \in Buttons :
          /\ cap[c].blob[1].lines[2] # NA
          /\ cap[c].jsonBlob[1].gps = gpsPosition

====
